---- MODULE Spec2Model ----
(***************************************************************************)
(* genart video: the animated-video rendering pipeline.                    *)
(*                                                                         *)
(* One run of the `video` command (commands/video.ts) as a state machine:  *)
(* the command's synchronous code between two awaits is one step, the      *)
(* frame captures of a chunk are concurrent jobs that advance one awaited  *)
(* browser operation at a time, and the encoder process (ffmpeg) and its   *)
(* stdin / stderr streams are the environment.                             *)
(***************************************************************************)
EXTENDS Integers, Sequences, FiniteSets, TLC

(***************************************************************************)
(* Bounds of the model.                                                    *)
(***************************************************************************)
\* largest --concurrency value explored
MaxConcurrency == 2
\* frames the encoder's stdin buffers before write() returns false (highWaterMark, in frames)
HighWaterMark == 3
\* 'data' events of the encoder's stderr per run, and the characters each carries
MaxStderrChunks == 2
\* longest --animate value explored character by character
MaxAnimateLen == 5
\* most frames of a run whose frame times are computed
MaxFrames == 30
\* iterations of the chunk loop after which a loop that captures nothing is left alone
MaxIterations == 4
\* The batch command is followed for at most MaxFiles files of at most MaxJobs jobs each.
MaxFiles == 2
MaxJobs == 3
StderrChunkLen == 300

(***************************************************************************)
(* IEEE-754 double arithmetic, as far as `Math.ceil(duration * fps)` needs *)
(* it: Number() of a decimal literal, the product with a small integer and *)
(* Math.ceil.  A double is [m |-> 53 bits, most significant first,         *)
(* e |-> exponent of the leading bit]; zero has no bits.                   *)
(***************************************************************************)
Only(S) == CHOOSE v \in S : TRUE

RECURSIVE Pow10(_)
Pow10(k) == IF k = 0 THEN 1 ELSE 10 * Pow10(k - 1)

RECURSIVE Pow2(_)
Pow2(k) == IF k = 0 THEN 1 ELSE 2 * Pow2(k - 1)

\* A double has a 53-bit significand; the arithmetic below works on 16-bit limbs.
MantissaBits == 53
LimbBits == 16
LimbBase == 65536

\* The w low bits of the natural number n, most significant first.
FixedBits(n, w) == [j \in 1..w |-> (n \div Pow2(w - j)) % 2]

\* Number of bits of the natural number n < 2^30 (0 for 0).
BitLen(n) == CHOOSE w \in 0..30 : n < Pow2(w) /\ (w = 0 \/ n >= Pow2(w - 1))

\* The bits of the natural number n, most significant first (empty for 0).
IntBits(n) == FixedBits(n, BitLen(n))

\* The natural number with the given bits (at most 30 of them).
RECURSIVE BitsInt(_)
BitsInt(b) == IF Len(b) = 0 THEN 0 ELSE 2 * BitsInt(SubSeq(b, 1, Len(b) - 1)) + b[Len(b)]

\* b without its leading zero bits.
StripZeros(b) ==
    IF \A j \in 1..Len(b) : b[j] = 0 THEN <<>>
    ELSE SubSeq(b, CHOOSE j \in 1..Len(b) : b[j] = 1 /\ \A h \in 1..(j - 1) : b[h] = 0, Len(b))

\* The first 16 * count bits of the binary expansion of r/d (0 <= r < d <= 1000), and the remainder.
RECURSIVE FracBits(_, _, _)
FracBits(r, d, count) ==
    IF count = 0 THEN [bits |-> <<>>, rem |-> r]
    ELSE Only({ [bits |-> FixedBits((r * LimbBase) \div d, LimbBits) \o rest.bits, rem |-> rest.rem]
                : rest \in {FracBits((r * LimbBase) % d, d, count - 1)} })

\* Number of zero bits that follow the binary point of r/d before its first one bit (0 < r < d).
LeadingZeros(r, d) == CHOOSE z \in 0..10 : r * Pow2(z + 1) >= d /\ r * Pow2(z) < d

\* b + 1 on bits.
IncBits(b) ==
    IF \A j \in 1..Len(b) : b[j] = 1 THEN <<1>> \o [j \in 1..Len(b) |-> 0]
    ELSE Only({ [j \in 1..Len(b) |-> IF j < last0 THEN b[j] ELSE IF j = last0 THEN 1 ELSE 0]
                : last0 \in {j \in 1..Len(b) : b[j] = 0 /\ \A h \in (j + 1)..Len(b) : b[h] = 1} })

DoubleZero == [m |-> <<>>, e |-> 0]

\* Round to nearest, ties to even: the bits p (leading bit 1, weight 2^e) followed by a
\* non-zero tail when `more`, cut to a 53-bit significand.
RoundBits(p, e, more) ==
    IF Len(p) <= MantissaBits
       THEN [m |-> p \o [j \in 1..(MantissaBits - Len(p)) |-> 0], e |-> e]
    ELSE IF p[MantissaBits + 1] = 1
            /\ (more \/ p[MantissaBits] = 1 \/ \E j \in (MantissaBits + 2)..Len(p) : p[j] = 1)
       THEN IF \A j \in 1..MantissaBits : p[j] = 1
               THEN [m |-> <<1>> \o [j \in 1..(MantissaBits - 1) |-> 0], e |-> e + 1]
               ELSE [m |-> IncBits(SubSeq(p, 1, MantissaBits)), e |-> e]
    ELSE [m |-> SubSeq(p, 1, MantissaBits), e |-> e]

\* The double nearest to num/d (0 < num, d a power of ten up to 1000).
DoubleOfRatio(num, d) ==
    IF num >= d
       THEN Only({ RoundBits(IntBits(num \div d) \o fb.bits, BitLen(num \div d) - 1, fb.rem # 0)
                   : fb \in {FracBits(num % d, d, 4)} })
       ELSE Only({ RoundBits(StripZeros(fb.bits), -(LeadingZeros(num, d) + 1), fb.rem # 0)
                   : fb \in {FracBits(num, d, 5)} })

\* Number("<num / 10^scale>"): the double a decimal literal stands for.
ToDouble(num, scale) == IF num = 0 THEN DoubleZero ELSE DoubleOfRatio(num, Pow10(scale))

\* The four 16-bit limbs of a 53-bit significand, most significant first.
Limbs(m) ==
    [j \in 1..4 |-> BitsInt(SubSeq([h \in 1..(4 * LimbBits - Len(m)) |-> 0] \o m,
                                   LimbBits * (j - 1) + 1, LimbBits * j))]

\* limb j of l * k and the carry out of it, k < 2^15.
RECURSIVE MulCarry(_, _, _)
MulCarry(l, k, j) == IF j > 4 THEN 0 ELSE (l[j] * k + MulCarry(l, k, j + 1)) \div LimbBase
MulLimb(l, k, j) == (l[j] * k + MulCarry(l, k, j + 1)) % LimbBase

\* m * k on bits, k a natural number below 2^15.
MulBits(m, k) ==
    Only({ StripZeros(IntBits(MulCarry(l, k, 1)) \o FixedBits(MulLimb(l, k, 1), LimbBits)
                      \o FixedBits(MulLimb(l, k, 2), LimbBits) \o FixedBits(MulLimb(l, k, 3), LimbBits)
                      \o FixedBits(MulLimb(l, k, 4), LimbBits))
           : l \in {Limbs(m)} })

\* x * k in double arithmetic, k a natural number below 2^15 (exactly representable).
MulDouble(x, k) ==
    IF x.m = <<>> \/ k = 0 THEN DoubleZero
    ELSE Only({ RoundBits(p, x.e + Len(p) - MantissaBits, FALSE) : p \in {MulBits(x.m, k)} })

\* Math.ceil of a non-negative double below 2^30.
CeilDouble(x) ==
    IF x.m = <<>> THEN 0
    ELSE IF x.e < 0 THEN 1
    ELSE BitsInt(SubSeq(x.m, 1, x.e + 1))
         + (IF \E j \in (x.e + 2)..MantissaBits : x.m[j] = 1 THEN 1 ELSE 0)

\* Math.ceil(Number(duration) * fps) for the literal num / 10^scale
TotalFramesOf(num, scale, fps) == CeilDouble(MulDouble(ToDouble(num, scale), fps))

(***************************************************************************)
(* Sums, differences and products of doubles, for the easings and the      *)
(* interpolation.  A signed double is [neg |-> sign, abs |-> double].      *)
(***************************************************************************)
Zeros(n) == [j \in 1..n |-> 0]

\* The cnt 16-bit limbs of the bits b, most significant first.
LimbsOf(b, cnt) ==
    Only({ [j \in 1..cnt |-> BitsInt(SubSeq(p, LimbBits * (j - 1) + 1, LimbBits * j))]
           : p \in {Zeros(LimbBits * cnt - Len(b)) \o b} })

\* The bits of the limbs l.
BitsOfLimbs(l) ==
    [k \in 1..(LimbBits * Len(l)) |->
        (l[((k - 1) \div LimbBits) + 1] \div Pow2(LimbBits - 1 - ((k - 1) % LimbBits))) % 2]

RECURSIVE AddCarry(_, _, _)
AddCarry(la, lb, j) ==
    IF j > Len(la) THEN 0 ELSE (la[j] + lb[j] + AddCarry(la, lb, j + 1)) \div LimbBase

\* a + b on bits.
AddBits(a, b) ==
    Only({ StripZeros(BitsOfLimbs([j \in 1..Len(la) |->
                                      (la[j] + lb[j] + AddCarry(la, lb, j + 1)) % LimbBase]))
           : la \in {LimbsOf(a, ((IF Len(a) > Len(b) THEN Len(a) ELSE Len(b)) \div LimbBits) + 1)},
             lb \in {LimbsOf(b, ((IF Len(a) > Len(b) THEN Len(a) ELSE Len(b)) \div LimbBits) + 1)} })

RECURSIVE SubBorrow(_, _, _)
SubBorrow(la, lb, j) ==
    IF j > Len(la) THEN 0
    ELSE IF la[j] - lb[j] - SubBorrow(la, lb, j + 1) < 0 THEN 1 ELSE 0

\* a - b on bits, for a >= b.
SubBits(a, b) ==
    Only({ StripZeros(BitsOfLimbs([j \in 1..Len(la) |->
                                      (la[j] - lb[j] - SubBorrow(la, lb, j + 1) + LimbBase) % LimbBase]))
           : la \in {LimbsOf(a, (Len(a) \div LimbBits) + 1)},
             lb \in {LimbsOf(b, (Len(a) \div LimbBits) + 1)} })

\* a < b for bits without leading zeros.
LessBits(a, b) ==
    \/ Len(a) < Len(b)
    \/ /\ Len(a) = Len(b)
       /\ \E k \in 1..Len(a) : a[k] < b[k] /\ \A h \in 1..(k - 1) : a[h] = b[h]

\* The 14-bit piece c (0 the lowest) of a 53-bit significand.
Piece(m, c) == BitsInt(SubSeq(Zeros(3) \o m, 14 * (3 - c) + 1, 14 * (4 - c)))

\* a * b on the significands of two doubles.
MulSignificands(a, b) ==
    AddBits(AddBits(MulBits(a, Piece(b, 0)), MulBits(a, Piece(b, 1)) \o Zeros(14)),
            AddBits(MulBits(a, Piece(b, 2)) \o Zeros(28), MulBits(a, Piece(b, 3)) \o Zeros(42)))

\* x * y on non-negative doubles.
MulAbs(x, y) ==
    IF x.m = <<>> \/ y.m = <<>> THEN DoubleZero
    ELSE Only({ RoundBits(p, x.e + y.e + Len(p) - 2 * MantissaBits + 1, FALSE)
                : p \in {MulSignificands(x.m, y.m)} })

\* x + y on non-negative doubles.
AddAbs(x, y) ==
    IF x.m = <<>> THEN y
    ELSE IF y.m = <<>> THEN x
    ELSE Only({ RoundBits(s, (IF x.e < y.e THEN x.e ELSE y.e) + Len(s) - MantissaBits, FALSE)
                : s \in {AddBits(x.m \o Zeros(IF x.e < y.e THEN 0 ELSE x.e - y.e),
                                 y.m \o Zeros(IF x.e < y.e THEN y.e - x.e ELSE 0))} })

\* x < y on non-negative doubles.
LessAbs(x, y) ==
    IF y.m = <<>> THEN FALSE
    ELSE IF x.m = <<>> THEN TRUE
    ELSE x.e < y.e \/ (x.e = y.e /\ LessBits(x.m, y.m))

\* x - y on non-negative doubles, for x >= y.
SubAbs(x, y) ==
    IF y.m = <<>> THEN x
    ELSE Only({ IF d = <<>> THEN DoubleZero ELSE RoundBits(d, y.e + Len(d) - MantissaBits, FALSE)
                : d \in {SubBits(x.m \o Zeros(x.e - y.e), y.m)} })

\* The number n / 10^scale, negated when neg.
Dec(neg, n, scale) == [neg |-> neg /\ n # 0, abs |-> ToDouble(n, scale)]

\* -x, x + y, x - y, x * y, x < y, x === y
Negate(x) == [x EXCEPT !.neg = ~@]
Plus(x, y) ==
    IF x.neg = y.neg THEN [neg |-> x.neg, abs |-> AddAbs(x.abs, y.abs)]
    ELSE IF LessAbs(x.abs, y.abs) THEN [neg |-> y.neg, abs |-> SubAbs(y.abs, x.abs)]
    ELSE IF LessAbs(y.abs, x.abs) THEN [neg |-> x.neg, abs |-> SubAbs(x.abs, y.abs)]
    ELSE [neg |-> FALSE, abs |-> DoubleZero]
Minus(x, y) == Plus(x, Negate(y))
Times(x, y) == [neg |-> x.neg # y.neg, abs |-> MulAbs(x.abs, y.abs)]
LessThan(x, y) ==
    IF x.abs.m = <<>> /\ y.abs.m = <<>> THEN FALSE
    ELSE IF x.neg # y.neg THEN x.neg
    ELSE IF x.neg THEN LessAbs(y.abs, x.abs) ELSE LessAbs(x.abs, y.abs)
SameNumber(x, y) == ~LessThan(x, y) /\ ~LessThan(y, x)

(***************************************************************************)
(* Easings and interpolation (video/interpolate.ts).                       *)
(***************************************************************************)
Zero == Dec(FALSE, 0, 0)
Half == Dec(FALSE, 5, 1)
One == Dec(FALSE, 1, 0)
Two == Dec(FALSE, 2, 0)
Four == Dec(FALSE, 4, 0)

\* EASINGS["ease-in-out"]: 2 * t * t below the midpoint, -1 + (4 - 2 * t) * t from it on
EaseInOutFirst(t) == Times(Times(Two, t), t)
EaseInOutSecond(t) == Plus(Negate(One), Times(Minus(Four, Times(Two, t)), t))

\* EASINGS[name](t)
Easing(name, t) ==
    CASE name = "linear"      -> t
      [] name = "ease-in"     -> Times(t, t)
      [] name = "ease-out"    -> Times(t, Minus(Two, t))
      [] name = "ease-in-out" -> IF LessThan(t, Half) THEN EaseInOutFirst(t) ELSE EaseInOutSecond(t)

\* Math.max(0, Math.min(1, t))
Clamp(t) ==
    IF LessThan(One, t) THEN One
    ELSE IF LessThan(t, Zero) THEN Zero
    ELSE t

\* a / b for natural numbers a and b, 0 < b <= 1000
Quotient(a, b) == [neg |-> FALSE, abs |-> IF a = 0 THEN DoubleZero ELSE DoubleOfRatio(a, b)]

\* the time of a frame taken over all frames: frameIdx / totalFrames
NormalizedTimeOverFrames(frameIdx, total) == IF total <= 1 THEN Zero ELSE Quotient(frameIdx, total)

\* t = totalFrames <= 1 ? 0 : frameIdx / (totalFrames - 1)
NormalizedTime(frameIdx, total) == IF total <= 1 THEN Zero ELSE Quotient(frameIdx, total - 1)

\* timeOffsetMs = (frameIdx / fps) * 1000
TimeOffsetMs(frameIdx, fps) ==
    [neg |-> FALSE, abs |-> MulDouble(Quotient(frameIdx, fps).abs, 1000)]

\* The number a decimal literal denotes.
NumberOf(d) == Dec(d.neg, d.num, d.scale)

\* interpolateParams(specs, t, easing): result[spec.key] is assigned spec by spec, so a
\* later spec of a key replaces an earlier one.
InterpolateParams(specs, t, name) ==
    Only({ [k \in {specs[n].key : n \in DOMAIN specs} |->
              LET last == CHOOSE n \in DOMAIN specs :
                             /\ specs[n].key = k
                             /\ \A h \in DOMAIN specs : specs[h].key = k => h <= n
                  start == NumberOf(specs[last].start)
                  end   == NumberOf(specs[last].end)
              IN Plus(start, Times(Minus(end, start), easedT))]
           : easedT \in {Easing(name, Clamp(t))} })

(***************************************************************************)
(* --animate and --easing (video/interpolate.ts).  A string is a sequence  *)
(* of one-character strings.                                               *)
(***************************************************************************)
Digits == {"0", "1", "2", "3", "4", "5", "6", "7", "8", "9"}

\* String.prototype.indexOf(c): 0-based position of the first c, -1 when there is none
IndexOf(s, c) ==
    IF \E p \in 1..Len(s) : s[p] = c
       THEN (CHOOSE p \in 1..Len(s) : s[p] = c /\ \A q \in 1..(p - 1) : s[q] # c) - 1
       ELSE -1

\* String.prototype.slice(from, to) with 0 <= from, to <= length
StrSlice(s, from, to) == SubSeq(s, from + 1, to)

\* range.split(":").length
SplitCount(s, c) == Cardinality({p \in 1..Len(s) : s[p] = c}) + 1

\* Number.isNaN(Number(s)) for s over digits, sign and point: the empty string is 0,
\* a numeral is [+-] digits [. digits] or [+-] . digits
NumberIsNaN(s) ==
    LET body  == IF Len(s) > 0 /\ s[1] \in {"-", "+"} THEN SubSeq(s, 2, Len(s)) ELSE s
        dots  == {p \in 1..Len(body) : body[p] = "."}
        digs  == {p \in 1..Len(body) : body[p] \in Digits}
    IN IF Len(s) = 0 THEN FALSE
       ELSE ~(/\ Cardinality(dots) <= 1
              /\ Cardinality(digs) >= 1
              /\ Cardinality(dots) + Cardinality(digs) = Len(body))

\* parseAnimate(value): "none" when it returns a spec, else the error it throws
ParseAnimateError(value) ==
    LET eqIdx == IndexOf(value, "=")
        range == StrSlice(value, eqIdx + 1, Len(value))
        colon == IndexOf(range, ":")
    IN IF eqIdx < 1 THEN "format"
       ELSE IF SplitCount(range, ":") # 2 THEN "range"
       ELSE IF NumberIsNaN(StrSlice(range, 0, colon))
               \/ NumberIsNaN(StrSlice(range, colon + 1, Len(range))) THEN "values"
       ELSE "none"

\* the digit a character denotes
DigitValue == [c \in Digits |-> CHOOSE d \in 0..9 : <<"0", "1", "2", "3", "4", "5", "6", "7", "8", "9">>[d + 1] = c]

RECURSIVE DigitsInt(_)
DigitsInt(s) == IF Len(s) = 0 THEN 0 ELSE 10 * DigitsInt(SubSeq(s, 1, Len(s) - 1)) + DigitValue[s[Len(s)]]

\* Number(s) that keeps the integer part only
NumberValueTruncated(s) ==
    LET body == IF Len(s) > 0 /\ s[1] \in {"-", "+"} THEN SubSeq(s, 2, Len(s)) ELSE s
        dot  == IndexOf(body, ".")
        int  == IF dot < 0 THEN body ELSE StrSlice(body, 0, dot)
    IN [neg |-> Len(s) > 0 /\ s[1] = "-", abs |-> ToDouble(DigitsInt(int), 0)]

\* Number(s) for s the empty string or a numeral: the double nearest to the decimal
NumberValue(s) ==
    LET body == IF Len(s) > 0 /\ s[1] \in {"-", "+"} THEN SubSeq(s, 2, Len(s)) ELSE s
        dot  == IndexOf(body, ".")
        int  == IF dot < 0 THEN body ELSE StrSlice(body, 0, dot)
        frac == IF dot < 0 THEN <<>> ELSE StrSlice(body, dot + 1, Len(body))
    IN [neg |-> Len(s) > 0 /\ s[1] = "-", abs |-> ToDouble(DigitsInt(int \o frac), Len(frac))]

\* parseAnimate(value): the spec it returns, or the error it throws
ParseAnimate(value) ==
    LET eqIdx == IndexOf(value, "=")
        range == StrSlice(value, eqIdx + 1, Len(value))
        colon == IndexOf(range, ":")
    IN IF ParseAnimateError(value) # "none" THEN [error |-> ParseAnimateError(value)]
       ELSE [ key   |-> StrSlice(value, 0, eqIdx),
              start |-> NumberValue(StrSlice(range, 0, colon)),
              end   |-> NumberValue(StrSlice(range, colon + 1, Len(range))) ]

\* the own keys of EASINGS, and keys every object literal inherits from Object.prototype
EasingNames == {"linear", "ease-in", "ease-out", "ease-in-out"}
ObjectPrototypeKeys == {"constructor", "toString", "valueOf", "hasOwnProperty", "__proto__"}

\* EASINGS[name]: a property read follows the prototype chain
EasingLookup(name) ==
    IF name \in EasingNames THEN "own"
    ELSE IF name \in ObjectPrototypeKeys THEN "inherited"
    ELSE "undefined"

(***************************************************************************)
(* ffmpeg arguments (video/ffmpeg.ts).                                     *)
(***************************************************************************)
\* String(n) for a natural number n: its decimal digits
RECURSIVE String(_)
String(n) ==
    LET digit == <<"0", "1", "2", "3", "4", "5", "6", "7", "8", "9">>[(n % 10) + 1]
    IN IF n < 10 THEN <<digit>> ELSE Append(String(n \div 10), digit)

H264 == <<"h", "2", "6", "4">>
H265 == <<"h", "2", "6", "5">>
VP9 == <<"v", "p", "9">>
LibX264 == <<"l", "i", "b", "x", "2", "6", "4">>
LibX265 == <<"l", "i", "b", "x", "2", "6", "5">>
LibVpxVp9 == <<"l", "i", "b", "v", "p", "x", "-", "v", "p", "9">>

\* Math.floor of a non-negative double below 2^30
FloorDouble(x) ==
    IF x.m = <<>> \/ x.e < 0 THEN 0 ELSE BitsInt(SubSeq(x.m, 1, x.e + 1))

\* Math.round of a non-negative double below 2^30: halves go up
RoundDouble(x) ==
    IF x.m = <<>> \/ x.e < -1 THEN 0
    ELSE IF x.e = -1 THEN 1
    ELSE BitsInt(SubSeq(x.m, 1, x.e + 1)) + x.m[x.e + 2]

\* qualityToCrf(quality, codec) for an integer quality in 0..100:
\* Math.round(((100 - quality) * maxCrf) / 100), the product an exact integer
QualityToCrf(quality, codec) ==
    LET maxCrf == IF codec = LibVpxVp9 THEN 63 ELSE 51
        n      == (100 - quality) * maxCrf
    IN IF n = 0 THEN 0 ELSE RoundDouble(DoubleOfRatio(n, 100))

\* resolveCodec(codec): map[codec] ?? codec
ResolveCodec(codec) ==
    IF codec = H264 THEN LibX264
    ELSE IF codec = H265 THEN LibX265
    ELSE IF codec = VP9 THEN LibVpxVp9
    ELSE codec

\* ffCodec === "libx264" || ffCodec === "libx265"
NeedsPixFmt(ffCodec) == ffCodec = LibX264 \/ ffCodec = LibX265

\* a container-finalize flag for both x26* encoders
NeedsFaststartX26(ffCodec) == ffCodec = LibX264 \/ ffCodec = LibX265

\* ffCodec === "libx264"
NeedsFaststart(ffCodec) == ffCodec = LibX264

\* buildFfmpegArgs(o)
BuildFfmpegArgs(o) ==
    LET head == << <<"-", "f">>, <<"i", "m", "a", "g", "e", "2", "p", "i", "p", "e">>, <<"-", "f", "r", "a", "m", "e", "r", "a", "t", "e">>, String(o.fps),
                   <<"-", "i">>, <<"p", "i", "p", "e", ":", "0">>, <<"-", "y">> >>
        gif  == << <<"-", "v", "f">>, <<"f", "p", "s", "=">> \o String(o.fps), <<"-", "l", "o", "o", "p">>, String(o.loop) >>
        ffCodec == ResolveCodec(o.codec)
        enc  == << <<"-", "c", ":", "v">>, ffCodec, <<"-", "c", "r", "f">>, String(QualityToCrf(o.quality, ffCodec)) >>
                \o (IF NeedsPixFmt(ffCodec) THEN << <<"-", "p", "i", "x", "_", "f", "m", "t">>, <<"y", "u", "v", "4", "2", "0", "p">> >> ELSE <<>>)
                \o (IF NeedsFaststart(ffCodec) THEN << <<"-", "m", "o", "v", "f", "l", "a", "g", "s">>, <<"+", "f", "a", "s", "t", "s", "t", "a", "r", "t">> >> ELSE <<>>)
    IN head \o (IF o.format = "gif" THEN gif ELSE enc) \o <<o.output>>

\* The configurations explored.
FfmpegConfigs ==
    [ format : {"mp4", "webm", "gif"},
      codec : {H264, H265, VP9, LibX264, LibX265, LibVpxVp9, <<"a", "v", "1">>},
      quality : {0, 50, 75, 100}, fps : {5, 30}, loop : {0, 3},
      output : {<<"o", "u", "t", ".", "m", "p", "4">>, <<"a", ".", "g", "i", "f">>} ]

(***************************************************************************)
(* Inputs of a run: the command line and the machine it runs on.           *)
(***************************************************************************)
Renderers == {"p5", "svg"}
\* findFfmpeg(): GENART_FFMPEG_PATH is set, or `which ffmpeg` finds it, or neither
FfmpegInputs == {"env", "path", "missing"}
AnimateInputs ==
    { <<>>,
      << <<"a", "=", "0", ":", "1">> >>,
      << <<"a", "=", "-", "1", ":", ".", "5">> >>,
      << <<"a">> >>,
      << <<"=", "0", ":", "1">> >>,
      << <<"a", "=", "0">> >>,
      << <<"a", "=", "x", ":", "1">> >>,
      << <<"a", "=", ":", "1">> >>,
      << <<"a", "=", "0", ":", "1">>, <<"a", "=", "0", ":", "1", ":", "2">> >> }
EasingInputs == {"linear", "ease-in-out", "bounce", "constructor"}
\* --duration <num / 10^scale> --fps <fps>
VideoInputs ==
    { [num |-> 1, scale |-> 0, fps |-> 10], [num |-> 2, scale |-> 0, fps |-> 5],
      [num |-> 5, scale |-> 1, fps |-> 3],  [num |-> 3, scale |-> 2, fps |-> 10],
      [num |-> 28, scale |-> 2, fps |-> 25], [num |-> 0, scale |-> 0, fps |-> 10] }

\* parseWait(--wait): the initialization wait in ms
WaitInputs == {0, 200}

AllOptions ==
    [ renderer : Renderers, ffmpeg : FfmpegInputs, chrome : BOOLEAN, animate : AnimateInputs,
      easing : EasingInputs, video : VideoInputs, concurrency : 1..MaxConcurrency,
      wait : WaitInputs ]

\* The runs explored: every command line for a two-frame video on a machine with Chrome,
\* and every video on every machine for the command line with the default options.
PlainCommand(o) ==
    /\ o.renderer = "p5" /\ o.ffmpeg = "path" /\ o.animate = <<>> /\ o.easing = "linear"
    /\ o.wait = 200
ShortVideo(o) ==
    o.video = [num |-> 5, scale |-> 1, fps |-> 3] /\ o.chrome
Options == {o \in AllOptions : PlainCommand(o) \/ ShortVideo(o)}

(***************************************************************************)
(* State.                                                                  *)
(***************************************************************************)
VARIABLES
    opts,               \* the inputs of the run
    pc,                 \* where the command's control flow is suspended
    totalFrames, i, framesRendered,
    frames,             \* the result of Promise.all for the current chunk
    iterations,         \* iterations of the chunk loop begun
    widx,               \* position in `frames` of the write that awaits 'drain'
    jobs,               \* the frame captures of the current chunk, by position in the chunk
    completed,          \* positions of the chunk's resolved captures, in the order they resolved
    started,            \* frame indices in the order their capture called getPage
    nPages, nShots,     \* pages getPage returned, screenshots taken
    browserInstance,    \* capture/browser.ts: the shared browser, NoBrowser for null
    launches,           \* puppeteer.launch calls
    closedBrowsers,     \* browsers on which close() was called
    closeBrowserCalls,  \* calls of closeBrowser()
    spawns,             \* spawnFfmpeg calls
    proc,               \* the encoder process: "none", "running", "closed"
    procCode,           \* its exit code once closed
    listening,          \* the 'close' listener is registered
    stdin,              \* the encoder's stdin: the frames write() was called with, frames
                        \* buffered, blocked (a write returned false and no 'drain' was
                        \* emitted since), 'drain' events emitted, end() called, calls of end()
    ffmpegStderr,       \* characters accumulated from the encoder's stderr
    stderrEvents,       \* 'data' events of stderr so far
    exitCode,           \* process.exitCode, 0 while unset
    error,              \* the error the catch block reported
    call,               \* a call of one of the pure functions: its name, argument and,
                        \* once it has returned, <<result>>
    batch               \* a run of the batch command: its control flow, the file and chunk
                        \* it is at, the chunk's captures, the manifest array, the manifest
                        \* written, the renders counted

browserVars == <<browserInstance, nPages, nShots>>
encoderVars == <<proc, procCode, ffmpegStderr, stderrEvents>>
flowVars == <<pc, totalFrames, i, iterations, framesRendered, frames, widx, jobs, completed, started, launches,
              closedBrowsers, closeBrowserCalls, spawns, listening, stdin, exitCode, error>>
vars == <<opts, call, batch, browserVars, encoderVars, flowVars>>

NoBrowser == 0
NoError == [kind |-> "none", code |-> 0, from |-> 0, to |-> 0]
\* A capture: its state, frame index, browser, buffer, and whether it holds an open page.
IdleJob == [st |-> "idle", idx |-> 0, b |-> NoBrowser, buf |-> -1, page |-> FALSE]

Min(a, b) == IF a < b THEN a ELSE b
Max(a, b) == IF a > b THEN a ELSE b

\* The control-flow state as one record: the code between two awaits maps it to the next.
Flow ==
    [ pc |-> pc, totalFrames |-> totalFrames, i |-> i, iterations |-> iterations,
      framesRendered |-> framesRendered,
      frames |-> frames, widx |-> widx, jobs |-> jobs, completed |-> completed,
      started |-> started,
      launches |-> launches, closedBrowsers |-> closedBrowsers,
      closeBrowserCalls |-> closeBrowserCalls, spawns |-> spawns, listening |-> listening,
      stdin |-> stdin, exitCode |-> exitCode, error |-> error ]

Become(m) ==
    /\ pc' = m.pc /\ totalFrames' = m.totalFrames /\ i' = m.i /\ iterations' = m.iterations
    /\ framesRendered' = m.framesRendered /\ frames' = m.frames /\ widx' = m.widx
    /\ jobs' = m.jobs /\ completed' = m.completed /\ started' = m.started
    /\ launches' = m.launches
    /\ closedBrowsers' = m.closedBrowsers /\ closeBrowserCalls' = m.closeBrowserCalls
    /\ spawns' = m.spawns /\ listening' = m.listening /\ stdin' = m.stdin
    /\ exitCode' = m.exitCode /\ error' = m.error

NoCall == [fn |-> "none", arg |-> <<>>, out |-> <<>>]

\* the batch command before its action runs: `manifest` is empty, totalRendered is 0
NoBatch == [pc |-> "start", file |-> 0, i |-> 0, chunk |-> <<>>, manifest |-> <<>>,
            written |-> <<>>, logged |-> FALSE, totalRendered |-> 0, exitCode |-> 0]

\* the state in which a run of the command starts
Idle ==
    /\ pc = "start" /\ totalFrames = 0 /\ i = 0 /\ iterations = 0 /\ framesRendered = 0
    /\ frames = <<>> /\ widx = 0
    /\ jobs = [j \in 1..MaxConcurrency |-> IdleJob]
    /\ completed = <<>> /\ started = <<>> /\ nPages = 0 /\ nShots = 0
    /\ browserInstance = NoBrowser /\ launches = 0 /\ closedBrowsers = {}
    /\ closeBrowserCalls = 0
    /\ spawns = 0 /\ proc = "none" /\ procCode = 0 /\ listening = FALSE
    /\ stdin = [written |-> <<>>, buffered |-> 0, blocked |-> FALSE, drains |-> 0,
                ended |-> FALSE, ends |-> 0]
    /\ ffmpegStderr = 0 /\ stderrEvents = 0
    /\ exitCode = 0 /\ error = NoError
    /\ batch = NoBatch

Init == opts \in Options /\ call = NoCall /\ Idle

(***************************************************************************)
(* The command's synchronous code (commands/video.ts), from one await to   *)
(* the next, as maps on the control-flow record.                           *)
(***************************************************************************)
\* browserInstance?.connected
Connected(m) == browserInstance # NoBrowser /\ browserInstance \notin m.closedBrowsers

\* closeBrowser() up to its await: close() is called on the shared browser, if there is one
CloseBrowser(m) ==
    [m EXCEPT !.closeBrowserCalls = @ + 1,
              !.closedBrowsers = IF browserInstance # NoBrowser THEN @ \cup {browserInstance} ELSE @,
              !.pc = IF browserInstance # NoBrowser THEN "closing" ELSE "done"]

\* a catch block that ends the run itself, without the finally clause
FailWithoutFinally(m, err) == [m EXCEPT !.exitCode = 1, !.error = err, !.pc = "done"]

\* catch: report the error and set process.exitCode; then finally
Fail(m, err) == CloseBrowser([m EXCEPT !.exitCode = 1, !.error = err])

\* the run succeeded: finally
Succeed(m) == CloseBrowser(m)

\* a chunk that always takes `concurrency` frames
ChunkSizeFull(m, i0) == opts.concurrency

\* Math.min(concurrency, totalFrames - i)
ChunkSize(m, i0) == Min(opts.concurrency, m.totalFrames - i0)

\* the length Array.from takes from { length: n }: none below 0
ArrayLength(n) == Max(n, 0)

\* Array.from({ length: chunkSize }, (_, j) => i + j), positions counted from 1
FrameIndices(i0, n) == [j \in 1..ArrayLength(n) |-> i0 + j - 1]

\* A frame capture up to its first await: getPage() -> getBrowser() returns the connected
\* browser, or finds no Chrome and throws, or calls puppeteer.launch
JobStart(m, idx, j) ==
    IF Connected(m) THEN [IdleJob EXCEPT !.st = "newPage", !.idx = idx, !.b = browserInstance]
    ELSE IF ~opts.chrome THEN [IdleJob EXCEPT !.st = "rejected", !.idx = idx]
    ELSE [IdleJob EXCEPT !.st = "launch", !.idx = idx, !.b = m.launches + j]

\* frameIndices.map(async ...) and await Promise.all: every capture of the chunk starts
StartChunk(m, i0) ==
    LET n   == ArrayLength(ChunkSize(m, i0))
        ids == FrameIndices(i0, n)
        m1  == [m EXCEPT !.i = i0, !.iterations = @ + 1,
                         !.pc = "capture", !.frames = <<>>, !.widx = 0,
                         !.jobs = [j \in 1..MaxConcurrency |->
                                      IF j <= n THEN JobStart(m, ids[j], j) ELSE IdleJob],
                         !.completed = <<>>,
                         !.started = @ \o ids,
                         !.launches = IF ~Connected(m) /\ opts.chrome THEN @ + n ELSE @]
    IN IF \E j \in 1..n : m1.jobs[j].st = "rejected"
          THEN Fail(m1, [NoError EXCEPT !.kind = "capture"])
          ELSE m1

\* the wait for the encoder's exit without stdin.end()
EndInputUnended(m) == [m EXCEPT !.listening = TRUE, !.pc = "awaitExit"]

\* ffmpegProc.stdin.end() and the promise that registers the 'close' listener
EndInput(m) ==
    [m EXCEPT !.stdin.ended = TRUE, !.stdin.ends = @ + 1, !.listening = TRUE, !.pc = "awaitExit"]

\* the head of the chunk loop: for (let i = 0; i < totalFrames; i += concurrency)
LoopHead(m, i0) ==
    IF i0 < m.totalFrames THEN StartChunk(m, i0) ELSE EndInput([m EXCEPT !.i = i0])

\* a write that hands nothing to the stream
WriteFrameDropped(s, frame) == s

\* stdin.write(frame): the call is recorded; a stream destroyed by the encoder's exit takes
\* nothing and returns false, otherwise the frame is buffered
WriteFrame(s, frame) ==
    IF proc = "closed" THEN [s EXCEPT !.written = Append(@, frame), !.blocked = TRUE]
    ELSE [s EXCEPT !.written = Append(@, frame), !.buffered = @ + 1,
                   !.blocked = (s.buffered + 1 >= HighWaterMark)]

\* a write loop that ignores what write() returned
CanWriteAlways(s) == TRUE

\* what write() returned
CanWrite(s) == ~s.blocked

\* framesRendered += concurrency
ProgressByConcurrency(m) == m.framesRendered + opts.concurrency

\* framesRendered += chunkSize
Progress(m) == m.framesRendered + ChunkSize(m, m.i)

\* for (const frame of frames): write from position k on, until a write returns false
RECURSIVE WriteFrames(_, _)
WriteFrames(m, k) ==
    IF k > Len(m.frames)
       THEN LoopHead([m EXCEPT !.framesRendered = Progress(m)], m.i + opts.concurrency)
    ELSE IF CanWrite(WriteFrame(m.stdin, m.frames[k]))
       THEN WriteFrames([m EXCEPT !.stdin = WriteFrame(m.stdin, m.frames[k])], k + 1)
    ELSE [m EXCEPT !.stdin = WriteFrame(m.stdin, m.frames[k]), !.widx = k, !.pc = "drain"]

\* the buffers in the order the captures resolved
GatherAsCompleted(m, n) == [k \in 1..n |-> m.jobs[m.completed[k]].buf]

\* the value Promise.all fulfils with: the captures' buffers by position in the chunk
Gather(m, n) == [j \in 1..n |-> m.jobs[j].buf]

\* Promise.allSettled in place of Promise.all: once every capture has settled, the buffers of
\* the resolved ones are written and the loop goes on
SettleKeepingFulfilled(m) ==
    LET n == ChunkSize(m, m.i)
    IN IF m.pc # "capture" THEN m
       ELSE IF \A j \in 1..n : m.jobs[j].st \in {"resolved", "rejected"}
          THEN WriteFrames([m EXCEPT !.frames =
                  SelectSeq([j \in 1..n |-> IF m.jobs[j].st = "resolved" THEN m.jobs[j].buf ELSE -1],
                            LAMBDA b : b >= 0)], 1)
       ELSE m

\* the await of Promise.all settles: it rejects with the first rejection, it fulfils once
\* every capture has resolved
Settle(m) ==
    LET n == ChunkSize(m, m.i)
    IN IF m.pc # "capture" THEN m
       ELSE IF \E j \in 1..n : m.jobs[j].st = "rejected"
          THEN Fail(m, [NoError EXCEPT !.kind = "capture"])
       ELSE IF \A j \in 1..n : m.jobs[j].st = "resolved"
          THEN WriteFrames([m EXCEPT !.frames = Gather(m, n)], 1)
       ELSE m

\* the head of the string where its tail is asked for
SliceHead(len, start) == [from |-> 0, to |-> IF -start < len THEN -start ELSE len]

\* ffmpegStderr.slice(start): the positions [from, to) of a string of length len
Slice(len, start) ==
    [from |-> IF start < 0 THEN Max(len + start, 0) ELSE Min(start, len), to |-> len]

StderrTail == 500

\* the 'close' listener resolves with the exit code: non-zero throws, zero reports success
AfterClose(m, code) ==
    IF code # 0
       THEN Fail(m, [kind |-> "ffmpeg", code |-> code,
                     from |-> Slice(ffmpegStderr, -StderrTail).from,
                     to   |-> Slice(ffmpegStderr, -StderrTail).to])
       ELSE Succeed(m)

RendererIsStatic == opts.renderer = "svg"
FfmpegAssumed == TRUE
FfmpegResolved == opts.ffmpeg # "missing"
AnimateParses == \A p \in 1..Len(opts.animate) : ParseAnimateError(opts.animate[p]) = "none"
EasingAccepted == EasingLookup(opts.easing) # "undefined"

\* spawnFfmpeg(ffmpegPath, ffmpegArgs) and the stderr listener
Spawn(m) == [m EXCEPT !.spawns = @ + 1]

\* the action of the command from loadSketch to its first await
Run(m) ==
    IF RendererIsStatic THEN Fail(m, [NoError EXCEPT !.kind = "renderer"])
    ELSE IF ~FfmpegResolved THEN Fail(m, [NoError EXCEPT !.kind = "ffmpeg-missing"])
    ELSE IF ~AnimateParses THEN Fail(m, [NoError EXCEPT !.kind = "animate"])
    ELSE IF ~EasingAccepted THEN Fail(m, [NoError EXCEPT !.kind = "easing"])
    ELSE LoopHead(Spawn([m EXCEPT !.totalFrames =
            TotalFramesOf(opts.video.num, opts.video.scale, opts.video.fps)]), 0)

(***************************************************************************)
(* Steps.                                                                  *)
(***************************************************************************)
\* The command starts: preconditions, spawn, and the first chunk's captures.
Begin ==
    /\ pc = "start"
    /\ \E m \in {Run(Flow)} :
          /\ Become(m)
          /\ proc' = IF m.spawns > 0 THEN "running" ELSE proc
    /\ UNCHANGED <<opts, batch, call, browserVars, procCode, ffmpegStderr, stderrEvents>>

\* The job at position j moves to state st (and takes buffer buf, and its page is open or
\* not); the command's flow resumes when that settles its Promise.all.
JobTurns(j, st, buf, page) ==
    \E m \in {Settle([Flow EXCEPT !.jobs[j].st = st, !.jobs[j].buf = buf,
                                  !.jobs[j].page = page,
                                  !.completed = IF st = "resolved" THEN Append(@, j) ELSE @])} :
       Become(m)

\* ... and its page stays as it is
JobMoves(j, st, buf) == JobTurns(j, st, buf, jobs[j].page)

Usable(j) == jobs[j].b \notin closedBrowsers

\* a time offset taken as positive for every frame
TimeOffsetAlways(idx) == TRUE

\* timeOffsetMs > 0, for timeOffsetMs = (frameIdx / fps) * 1000
TimeOffsetPositive(idx) == idx > 0

\* puppeteer.launch resolves in getBrowser: the shared instance is assigned, newPage is called
Launched(j) ==
    /\ jobs[j].st = "launch"
    /\ browserInstance' = jobs[j].b
    /\ JobMoves(j, "newPage", -1)
    /\ UNCHANGED <<opts, batch, call, nPages, nShots, encoderVars>>

\* browser.newPage resolves in getPage: setViewport is called
PageCreated(j) ==
    /\ jobs[j].st = "newPage" /\ Usable(j)
    /\ JobTurns(j, "viewport", -1, TRUE)
    /\ UNCHANGED <<opts, batch, call, browserVars, encoderVars>>

\* setViewport resolves: getPage returns the page, setContent is called
PageAcquired(j) ==
    /\ jobs[j].st = "viewport" /\ Usable(j)
    /\ nPages' = nPages + 1
    /\ JobMoves(j, "load", -1)
    /\ UNCHANGED <<opts, batch, call, browserInstance, nShots, encoderVars>>

\* what a capture does once the sketch had its initialization wait
AfterInit(idx) == IF TimeOffsetPositive(idx) THEN "inject" ELSE "shot"

\* a capture that goes on at once when its content is loaded
AfterLoadWithoutWait(idx) == AfterInit(idx)

\* what a capture does once its content is loaded: if (initWaitMs > 0) wait
AfterLoad(idx) == IF opts.wait > 0 THEN "wait" ELSE AfterInit(idx)

\* setContent resolves: the initialization wait starts, if there is one
ContentLoaded(j) ==
    /\ jobs[j].st = "load" /\ Usable(j)
    /\ JobMoves(j, AfterLoad(jobs[j].idx), -1)
    /\ UNCHANGED <<opts, batch, call, browserVars, encoderVars>>

\* the setTimeout of the initialization wait fires
InitWaited(j) ==
    /\ jobs[j].st = "wait"
    /\ JobMoves(j, AfterInit(jobs[j].idx), -1)
    /\ UNCHANGED <<opts, batch, call, browserVars, encoderVars>>

\* injectTimeOffset resolves: the wait for one animation frame starts
TimeInjected(j) ==
    /\ jobs[j].st = "inject" /\ Usable(j)
    /\ JobMoves(j, "raf", -1)
    /\ UNCHANGED <<opts, batch, call, browserVars, encoderVars>>

\* the animation-frame wait resolves: the screenshot is requested
FrameRendered(j) ==
    /\ jobs[j].st = "raf" /\ Usable(j)
    /\ JobMoves(j, "shot", -1)
    /\ UNCHANGED <<opts, batch, call, browserVars, encoderVars>>

\* page.screenshot resolves with the frame's buffer: finally, page.close is called
Screenshot(j) ==
    /\ jobs[j].st = "shot" /\ Usable(j)
    /\ nShots' = nShots + 1
    /\ JobMoves(j, "close", jobs[j].idx)
    /\ UNCHANGED <<opts, batch, call, browserInstance, nPages, encoderVars>>

\* page.close resolves: the capture returns its buffer, or rethrows what made it fail
PageClosed(j) ==
    /\ jobs[j].st \in {"close", "closeErr"}
    /\ JobTurns(j, IF jobs[j].st = "close" THEN "resolved" ELSE "rejected", jobs[j].buf, FALSE)
    /\ UNCHANGED <<opts, batch, call, browserVars, encoderVars>>

\* an awaited browser operation rejects and the capture rejects at once, with no finally
OpFailedWithoutClose(j) ==
    /\ jobs[j].st \in {"launch", "newPage", "viewport", "load", "inject", "raf", "shot",
                        "close", "closeErr"}
    /\ JobMoves(j, "rejected", jobs[j].buf)
    /\ UNCHANGED <<opts, batch, call, browserVars, encoderVars>>

\* an awaited browser operation rejects: before the try the capture rejects at once, inside
\* it page.close is called first, and a failing page.close rejects the capture
OpFailed(j) ==
    /\ jobs[j].st \in {"launch", "newPage", "viewport", "load", "inject", "raf", "shot",
                        "close", "closeErr"}
    /\ JobMoves(j, IF jobs[j].st \in {"load", "inject", "raf", "shot"} THEN "closeErr"
                   ELSE "rejected", jobs[j].buf)
    /\ UNCHANGED <<opts, batch, call, browserVars, encoderVars>>

\* browserInstance.close() resolves in closeBrowser: the shared instance is forgotten
BrowserClosed ==
    /\ pc = "closing"
    /\ browserInstance' = NoBrowser
    /\ pc' = "done"
    /\ UNCHANGED <<opts, batch, call, nPages, nShots, encoderVars, totalFrames, i, iterations,
                   framesRendered, frames,
                   widx, jobs, completed, started, launches, closedBrowsers, closeBrowserCalls, spawns,
                   listening, stdin, exitCode, error>>

\* The encoder reads one buffered frame; an emptied buffer emits 'drain' if a write is
\* waiting for it, and the write loop goes on.
EncoderReads ==
    /\ proc = "running" /\ stdin.buffered > 0
    /\ LET drained == stdin.buffered = 1 /\ stdin.blocked
           m == [Flow EXCEPT !.stdin.buffered = @ - 1,
                             !.stdin.blocked = IF drained THEN FALSE ELSE @,
                             !.stdin.drains = IF drained THEN @ + 1 ELSE @]
       IN \E m2 \in {IF drained /\ pc = "drain" THEN WriteFrames(m, widx + 1) ELSE m} :
             Become(m2)
    /\ UNCHANGED <<opts, batch, call, browserVars, encoderVars>>

\* The encoder writes diagnostics: the 'data' listener appends the chunk.  Only the 'close'
\* handler reads the accumulated text, so the chunks are let in once the input has ended.
EncoderStderr ==
    /\ proc = "running" /\ stdin.ended /\ stderrEvents < MaxStderrChunks
    /\ ffmpegStderr' = ffmpegStderr + StderrChunkLen
    /\ stderrEvents' = stderrEvents + 1
    /\ UNCHANGED <<opts, batch, call, browserVars, proc, procCode, flowVars>>

\* The encoder exits and 'close' is emitted: with code 0 only once it has read all of an
\* ended input, with an error code at any time; the event is lost without a listener.
EncoderCloses(code) ==
    /\ proc = "running"
    /\ code = 0 => stdin.ended /\ stdin.buffered = 0
    /\ proc' = "closed" /\ procCode' = code
    /\ \E m \in {IF listening THEN AfterClose(Flow, code) ELSE Flow} : Become(m)
    /\ UNCHANGED <<opts, batch, call, browserVars, ffmpegStderr, stderrEvents>>

ExitCodes == {0, 1}

Next ==
    \/ Begin
    \/ \E j \in 1..MaxConcurrency :
          \/ Launched(j) \/ PageCreated(j) \/ PageAcquired(j) \/ ContentLoaded(j)
          \/ InitWaited(j) \/ TimeInjected(j) \/ FrameRendered(j) \/ Screenshot(j)
          \/ PageClosed(j) \/ OpFailed(j)
    \/ BrowserClosed
    \/ EncoderReads
    \/ EncoderStderr
    \/ \E code \in ExitCodes : EncoderCloses(code)

Spec == Init /\ [][Next]_vars


(***************************************************************************)
(* The chunk loop for every --concurrency the option parser lets through.  *)
(***************************************************************************)
\* --concurrency <n> is parsed with Number and not validated
ConcurrencyInputs == -1..MaxConcurrency

LoopOptions ==
    { o \in [ renderer : {"p5"}, ffmpeg : {"path"}, chrome : {TRUE}, animate : {<<>>},
              easing : {"linear"}, video : {[num |-> 5, scale |-> 1, fps |-> 3]},
              concurrency : ConcurrencyInputs, wait : {200} ] : TRUE }

LoopInit == opts \in LoopOptions /\ call = NoCall /\ Idle

\* The same runs with a chunk of at least one frame.  The browser completes every
\* operation it was asked for, and the event loop runs every completion: a capture stops
\* only where none of its steps is left, or by failing.
LiveInit == LoopInit /\ opts.concurrency >= 1
CaptureProceeds(j) ==
    \/ Launched(j) \/ PageCreated(j) \/ PageAcquired(j) \/ ContentLoaded(j)
    \/ InitWaited(j) \/ TimeInjected(j) \/ FrameRendered(j) \/ Screenshot(j)
    \/ PageClosed(j)
LiveSpec ==
    /\ LiveInit /\ [][Next]_vars
    /\ \A j \in 1..MaxConcurrency : WF_vars(CaptureProceeds(j))
    /\ WF_vars(BrowserClosed)
    /\ WF_vars(EncoderReads)

\* Promise.all of a chunk without captures fulfils with no frames: nothing is written and
\* the loop goes to its next iteration
EmptyChunkSettled ==
    /\ pc = "capture" /\ ChunkSize(Flow, i) <= 0
    /\ iterations < MaxIterations
    /\ \E m \in {Settle(Flow)} : Become(m)
    /\ UNCHANGED <<opts, batch, call, browserVars, encoderVars>>

LoopNext ==
    \/ Next
    \/ EmptyChunkSettled

LoopSpec == LoopInit /\ [][LoopNext]_vars

(***************************************************************************)
(* The pure functions, each called on its own.                             *)
(***************************************************************************)
DefaultOptions ==
    [ renderer |-> "p5", ffmpeg |-> "path", chrome |-> TRUE, animate |-> <<>>,
      easing |-> "linear", video |-> [num |-> 1, scale |-> 0, fps |-> 10],
      concurrency |-> 1, wait |-> 200 ]

\* Decimal literals of --animate endpoints and of t.
Decimal(neg, num, scale) == [neg |-> neg, num |-> num, scale |-> scale]
Endpoints ==
    { Decimal(FALSE, 0, 0), Decimal(FALSE, 1, 0), Decimal(FALSE, 10, 0), Decimal(FALSE, 20, 0),
      Decimal(FALSE, 50, 0), Decimal(FALSE, 100, 0), Decimal(FALSE, 1, 1), Decimal(FALSE, 2, 1),
      Decimal(FALSE, 7, 1), Decimal(FALSE, 9, 1), Decimal(TRUE, 1, 0) }
AnimateSpecs ==
    { <<[key |-> "a", start |-> s, end |-> e]>> : s, e \in Endpoints }
    \cup { << [key |-> "x", start |-> Decimal(FALSE, 0, 0), end |-> Decimal(FALSE, 100, 0)],
              [key |-> "y", start |-> Decimal(FALSE, 50, 0), end |-> Decimal(FALSE, 0, 0)] >>,
           << [key |-> "a", start |-> Decimal(FALSE, 0, 0), end |-> Decimal(FALSE, 1, 0)],
              [key |-> "a", start |-> Decimal(FALSE, 10, 0), end |-> Decimal(FALSE, 20, 0)] >> }
InterpolateTimes ==
    { Decimal(TRUE, 5, 1), Decimal(FALSE, 0, 0), Decimal(FALSE, 25, 2), Decimal(FALSE, 5, 1),
      Decimal(FALSE, 1, 0), Decimal(FALSE, 15, 1) }

\* Samples of [0,1] in ascending order: the hundredths, and the doubles next below 0.5
\* and next below 1.  A sample is num / 10^scale less below units of 2^-53.
UnitRoundoff == [neg |-> FALSE, abs |-> [m |-> <<1>> \o Zeros(MantissaBits - 1), e |-> -MantissaBits]]
Grid(k) == [num |-> k, scale |-> 2, below |-> 0]
Below(k, u) == [num |-> k, scale |-> 2, below |-> u]
EasingSamples ==
    [k \in 1..50 |-> Grid(k - 1)]
    \o <<Below(50, 2), Below(50, 1)>>
    \o [k \in 1..50 |-> Grid(k + 49)]
    \o <<Below(100, 4), Below(100, 3), Below(100, 2), Below(100, 1), Grid(100)>>
SampleValue(s) ==
    Minus(Dec(FALSE, s.num, s.scale), Times(Dec(FALSE, s.below, 0), UnitRoundoff))

\* String(x) for the number x = num / 10^scale, negated when neg (num has no trailing
\* zero when scale > 0, and is not 0 when neg)
NumberString(d) ==
    LET p    == Pow10(d.scale)
        frac == String(p + (d.num % p))
    IN (IF d.neg THEN <<"-">> ELSE <<>>) \o String(d.num \div p)
       \o (IF d.scale = 0 THEN <<>> ELSE <<".">> \o SubSeq(frac, 2, Len(frac)))

\* key + "=" + start + ":" + end
AnimateValue(s) == s.key \o <<"=">> \o NumberString(s.start) \o <<":">> \o NumberString(s.end)

AnimateAlphabet == {"a", "=", ":", "1", "-", "."}
AnimateStrings == UNION {[1..n -> AnimateAlphabet] : n \in 0..MaxAnimateLen}
AnimateKeys == {<<"a">>, <<"a", "b">>, <<"a", ":", "b">>, <<"1">>, <<"-", "a">>}
AnimateNumbers ==
    { Decimal(FALSE, 0, 0), Decimal(FALSE, 1, 0), Decimal(FALSE, 5, 0), Decimal(FALSE, 10, 0),
      Decimal(TRUE, 10, 0), Decimal(TRUE, 1, 0), Decimal(FALSE, 5, 1), Decimal(FALSE, 25, 1),
      Decimal(TRUE, 5, 1), Decimal(FALSE, 5, 2), Decimal(FALSE, 125, 3), Decimal(TRUE, 25, 2),
      Decimal(FALSE, 100, 0), Decimal(FALSE, 1, 1) }

FpsInputs == {1, 2, 3, 10, 24, 25, 30, 60}

\* The calls explored.
Calls ==
    [ fn : {"buildFfmpegArgs"}, arg : FfmpegConfigs, out : {<<>>} ]
    \cup [ fn : {"qualityToCrf"},
           arg : [quality : 0..100, codec : {LibX264, LibX265, LibVpxVp9, VP9}], out : {<<>>} ]
    \cup [ fn : {"interpolateParams"},
           arg : [specs : AnimateSpecs, t : InterpolateTimes, easing : EasingNames], out : {<<>>} ]
    \cup [ fn : {"easing"},
           arg : { [easing |-> name, t |-> EasingSamples[n], next |-> EasingSamples[n + 1]]
                   : name \in EasingNames, n \in 1..(Len(EasingSamples) - 1) },
           out : {<<>>} ]
    \cup [ fn : {"parseAnimate"}, arg : [value : AnimateStrings, from : {<<>>}], out : {<<>>} ]
    \cup [ fn : {"parseAnimate"},
           arg : { [value |-> AnimateValue(s), from |-> <<s>>]
                   : s \in [key : AnimateKeys, start : AnimateNumbers, end : AnimateNumbers] },
           out : {<<>>} ]
    \cup [ fn : {"normalizedTime"}, arg : [totalFrames : 1..MaxFrames], out : {<<>>} ]
    \cup [ fn : {"timeOffsetMs"}, arg : [totalFrames : 1..MaxFrames, fps : FpsInputs],
           out : {<<>>} ]

FnInit == opts = DefaultOptions /\ call \in Calls /\ Idle

\* the call fn is pending / has returned result
Pending(fn) == call.fn = fn /\ call.out = <<>>
Returned(result) == [call EXCEPT !.out = <<result>>]

BuildArgsReturns ==
    /\ Pending("buildFfmpegArgs")
    /\ call' = Returned(BuildFfmpegArgs(call.arg))
    /\ UNCHANGED <<opts, batch, browserVars, encoderVars, flowVars>>

QualityToCrfReturns ==
    /\ Pending("qualityToCrf")
    /\ call' = Returned(QualityToCrf(call.arg.quality, call.arg.codec))
    /\ UNCHANGED <<opts, batch, browserVars, encoderVars, flowVars>>

InterpolateParamsReturns ==
    /\ Pending("interpolateParams")
    /\ call' = Returned(InterpolateParams(call.arg.specs, NumberOf(call.arg.t), call.arg.easing))
    /\ UNCHANGED <<opts, batch, browserVars, encoderVars, flowVars>>

\* an easing applied to a sample of [0,1] and to the next sample above it
EasingReturns ==
    /\ Pending("easing")
    /\ call' = Returned([at   |-> Easing(call.arg.easing, SampleValue(call.arg.t)),
                         next |-> Easing(call.arg.easing, SampleValue(call.arg.next))])
    /\ UNCHANGED <<opts, batch, browserVars, encoderVars, flowVars>>

ParseAnimateReturns ==
    /\ Pending("parseAnimate")
    /\ call' = Returned(ParseAnimate(call.arg.value))
    /\ UNCHANGED <<opts, batch, browserVars, encoderVars, flowVars>>

\* the normalized times of the frames 0 .. totalFrames - 1 of a run
NormalizedTimeReturns ==
    /\ Pending("normalizedTime")
    /\ call' = Returned([frameIdx \in 0..(call.arg.totalFrames - 1) |->
                            NormalizedTime(frameIdx, call.arg.totalFrames)])
    /\ UNCHANGED <<opts, batch, browserVars, encoderVars, flowVars>>

\* the time offsets of the frames 0 .. totalFrames - 1 of a run
TimeOffsetMsReturns ==
    /\ Pending("timeOffsetMs")
    /\ call' = Returned([frameIdx \in 0..(call.arg.totalFrames - 1) |->
                            TimeOffsetMs(frameIdx, call.arg.fps)])
    /\ UNCHANGED <<opts, batch, browserVars, encoderVars, flowVars>>

FnNext ==
    \/ BuildArgsReturns
    \/ QualityToCrfReturns
    \/ InterpolateParamsReturns
    \/ EasingReturns
    \/ ParseAnimateReturns
    \/ NormalizedTimeReturns
    \/ TimeOffsetMsReturns

FnSpec == FnInit /\ [][FnNext]_vars

(***************************************************************************)
(* The batch command (commands/batch.ts): for every file the jobs are      *)
(* captured in chunks of `concurrency`; every capture writes its image and *)
(* then pushes its entry on the shared manifest array; the manifest is     *)
(* written once every file is done.  A manifest entry is held as the file  *)
(* and the job index it was pushed for.                                    *)
(***************************************************************************)
\* the command line: the files, the number of seeds of --seeds (no --sweep, no --random),
\* --concurrency of at least 1 and --manifest
BatchOptions ==
    [files : 1..MaxFiles, seeds : 1..MaxJobs, concurrency : 1..MaxConcurrency,
     manifest : BOOLEAN]

BatchInit == opts \in BatchOptions /\ call = NoCall /\ Idle

\* generateJobs(opts, seed).length: one job per seed
JobsLength == opts.seeds

\* jobs.slice(i, i + concurrency) and chunk.map(async (job, chunkIdx) => ...): every
\* capture of the chunk runs up to its await of captureHtml, idx = i + chunkIdx
BatchChunk(b, f, i0) ==
    [b EXCEPT !.pc = "chunk", !.file = f, !.i = i0,
              !.chunk = [k \in 1..Min(opts.concurrency, JobsLength - i0) |->
                            [st |-> "capture", file |-> f, idx |-> i0 + k - 1]]]

\* if (opts.manifest): writeFile is called with JSON.stringify(manifest); otherwise the
\* command succeeds and goes to its finally
BatchFinish(b) ==
    IF opts.manifest THEN [b EXCEPT !.pc = "manifest", !.written = <<b.manifest>>]
    ELSE [b EXCEPT !.pc = "closing"]

\* the heads of the two loops: for (let i = 0; i < jobs.length; i += concurrency) inside
\* for (const file of files)
BatchLoopHead(b, f, i0) ==
    IF i0 < JobsLength THEN BatchChunk(b, f, i0)
    ELSE IF f < opts.files THEN BatchChunk(b, f + 1, 0)
    ELSE BatchFinish(b)

\* await Promise.all(promises) settles: it rejects with the first rejection and the catch
\* sets the exit code; it fulfils once every capture has resolved, and
\* totalRendered += chunk.length
BatchSettle(b) ==
    IF b.pc # "chunk" THEN b
    ELSE IF \E k \in 1..Len(b.chunk) : b.chunk[k].st = "rejected"
       THEN [b EXCEPT !.exitCode = 1, !.pc = "closing"]
    ELSE IF \A k \in 1..Len(b.chunk) : b.chunk[k].st = "resolved"
       THEN BatchLoopHead([b EXCEPT !.totalRendered = @ + Len(b.chunk)],
                          b.file, b.i + opts.concurrency)
    ELSE b

\* manifest.push({...}): the entry goes to the end of the shared array
ManifestPush(b, k) == Append(b.manifest, [file |-> b.chunk[k].file, index |-> b.chunk[k].idx])

\* the action starts: the first file is loaded and its first chunk starts
BatchBegin ==
    /\ batch.pc = "start"
    /\ batch' = BatchLoopHead(batch, 1, 0)
    /\ UNCHANGED <<opts, call, browserVars, encoderVars, flowVars>>

\* captureHtml resolves for one capture: writeFile(outputPath, result.bytes) is called
CaptureHtmlResolved(k) ==
    /\ k \in 1..Len(batch.chunk) /\ batch.chunk[k].st = "capture"
    /\ batch' = [batch EXCEPT !.chunk[k].st = "write"]
    /\ UNCHANGED <<opts, call, browserVars, encoderVars, flowVars>>

\* writeFile resolves for one capture: its entry is pushed and the capture returns
OutputWritten(k) ==
    /\ k \in 1..Len(batch.chunk) /\ batch.chunk[k].st = "write"
    /\ batch' = BatchSettle([batch EXCEPT !.manifest = ManifestPush(batch, k),
                                         !.chunk[k].st = "resolved"])
    /\ UNCHANGED <<opts, call, browserVars, encoderVars, flowVars>>

\* captureHtml or writeFile rejects for one capture
BatchJobFailed(k) ==
    /\ k \in 1..Len(batch.chunk) /\ batch.chunk[k].st \in {"capture", "write"}
    /\ batch' = BatchSettle([batch EXCEPT !.chunk[k].st = "rejected"])
    /\ UNCHANGED <<opts, call, browserVars, encoderVars, flowVars>>

\* writeFile(manifestPath, ...) resolves: the manifest goes to stdout, the command succeeds
ManifestWritten ==
    /\ batch.pc = "manifest"
    /\ batch' = [batch EXCEPT !.logged = TRUE, !.pc = "closing"]
    /\ UNCHANGED <<opts, call, browserVars, encoderVars, flowVars>>

\* writeFile(manifestPath, ...) rejects: no manifest file, the catch sets the exit code
ManifestWriteFailed ==
    /\ batch.pc = "manifest"
    /\ batch' = [batch EXCEPT !.written = <<>>, !.exitCode = 1, !.pc = "closing"]
    /\ UNCHANGED <<opts, call, browserVars, encoderVars, flowVars>>

\* finally: await closeBrowser()
BatchBrowserClosed ==
    /\ batch.pc = "closing"
    /\ batch' = [batch EXCEPT !.pc = "done"]
    /\ UNCHANGED <<opts, call, browserVars, encoderVars, flowVars>>

BatchNext ==
    \/ BatchBegin
    \/ \E k \in 1..MaxConcurrency :
          \/ CaptureHtmlResolved(k) \/ OutputWritten(k) \/ BatchJobFailed(k)
    \/ ManifestWritten
    \/ ManifestWriteFailed
    \/ BatchBrowserClosed

BatchSpec == BatchInit /\ [][BatchNext]_vars

(***************************************************************************)
(* Properties of the pipeline.                                             *)
(***************************************************************************)
Finished == pc = "done"
Succeeded == pc = "done" /\ exitCode = 0

\* C1: in a successful run the frames handed to the encoder's stdin are 0, 1, ...,
\* totalFrames - 1, in that order and each once, whatever the order in which the captures
\* of a chunk complete; and at any time what has been written is a prefix of that sequence.
C1_FramesWrittenInOrder ==
    /\ \A k \in 1..Len(stdin.written) : stdin.written[k] = k - 1
    /\ Succeeded => Len(stdin.written) = totalFrames

\* C1 witness: a successful ten-frame run in chunks of two whose last chunk's second capture
\* resolved before its first.
C1_Witness ==
    /\ Succeeded /\ opts.concurrency = 2 /\ totalFrames = 10
    /\ completed = <<2, 1>> /\ Len(stdin.written) = 10

\* C2: closeBrowser is invoked exactly once per run: never before the run leaves its
\* pipeline, and once by the time it ends, on success and on every failure path.
C2_BrowserReleasedOnce ==
    closeBrowserCalls = IF pc \in {"closing", "done"} THEN 1 ELSE 0

\* C2 witness: a run that failed in a capture after the encoder was spawned has ended with
\* one closeBrowser call.
C2_Witness ==
    Finished /\ error.kind = "capture" /\ spawns = 1 /\ launches > 0 /\ closeBrowserCalls = 1

\* C3: at most one browser is launched in a run, also when the captures of the first chunk
\* call getPage concurrently.
C3_AtMostOneLaunch == launches <= 1

\* C4: with a static renderer (svg) or no ffmpeg to be found, the run ends with exit code 1,
\* no capture was started, no page created, no frame captured, and no encoder spawned.
C4_PreconditionsAbort ==
    (pc # "start" /\ (opts.renderer = "svg" \/ opts.ffmpeg = "missing"))
       => /\ Finished /\ exitCode = 1
          /\ spawns = 0 /\ proc = "none"
          /\ started = <<>> /\ launches = 0 /\ nPages = 0 /\ nShots = 0

\* C4 witness: a run for a p5 sketch on a machine without ffmpeg has ended.
C4_Witness ==
    Finished /\ opts.renderer = "p5" /\ opts.ffmpeg = "missing" /\ exitCode = 1

\* C5: an --animate value that is not key=start:end with a non-empty key and two numeric
\* endpoints, or an --easing name that is not one of the four easings, makes the run fail
\* with exit code 1 before the encoder is spawned and before any page is created.
C5_BadOptionsAbort ==
    LET numeric(s) == Len(s) > 0 /\ ~NumberIsNaN(s)
        malformed(v) ==
            LET eqIdx == IndexOf(v, "=")
                range == StrSlice(v, eqIdx + 1, Len(v))
                colon == IndexOf(range, ":")
            IN \/ eqIdx < 1
               \/ SplitCount(range, ":") # 2
               \/ ~numeric(StrSlice(range, 0, colon))
               \/ ~numeric(StrSlice(range, colon + 1, Len(range)))
    IN (pc # "start" /\ (\/ \E p \in 1..Len(opts.animate) : malformed(opts.animate[p])
                         \/ opts.easing \notin EasingNames))
          => /\ exitCode = 1
             /\ spawns = 0 /\ started = <<>> /\ nPages = 0

\* C6: when the encoder closes with a non-zero code after its input was ended, the run fails
\* with exit code 1 and the error carries that code and the last min(500, n) characters of
\* the n characters of diagnostics accumulated.
C6_EncoderFailureReported ==
    [][(proc = "running" /\ proc' = "closed" /\ procCode' # 0 /\ stdin.ended)
          => /\ exitCode' = 1
             /\ error'.kind = "ffmpeg" /\ error'.code = procCode'
             /\ error'.to = ffmpegStderr
             /\ error'.to - error'.from = IF ffmpegStderr < 500 THEN ffmpegStderr ELSE 500]_vars

\* C6 witness: the encoder failed after more than 500 characters of diagnostics and the
\* error carries a proper tail of them.
C6_Witness ==
    error.kind = "ffmpeg" /\ procCode # 0 /\ ffmpegStderr > 500 /\ error.from > 0

\* C7: a run that spawned the encoder and ended has ended the encoder's input or the encoder
\* has terminated: it is never left running with its input open.
C7_EncoderNotOrphaned ==
    (Finished /\ spawns > 0) => (stdin.ended \/ proc = "closed")

\* C8: once a write to the encoder's stdin returned false, the pipeline waits: until the
\* stream emits 'drain' nothing more is written and no capture is started.
C8_Backpressure ==
    /\ [](stdin.blocked => pc = "drain")
    /\ [][(stdin.blocked /\ stdin'.drains = stdin.drains)
             => (stdin'.written = stdin.written /\ started' = started)]_vars

\* C8 witness: a write in the middle of a chunk returned false while later frames of the
\* chunk and later chunks remain.
C8_Witness ==
    /\ stdin.blocked /\ pc = "drain" /\ proc = "running"
    /\ widx < Len(frames) /\ i + opts.concurrency < totalFrames

\* C9: once a capture of the chunk that starts at frame i has failed, exactly the frames of
\* the chunks before it have been written, the captures started are those of the chunks up
\* to it, each frame index once, and the run fails with exit code 1.
C9_CaptureFailureAborts ==
    (\E j \in 1..MaxConcurrency : jobs[j].st \in {"closeErr", "rejected"})
       => /\ stdin.written = [k \in 1..i |-> k - 1]
          /\ started = [k \in 1..Len(started) |-> k - 1]
          /\ Len(started) = IF i + opts.concurrency < totalFrames
                               THEN i + opts.concurrency ELSE totalFrames
          /\ (\E j \in 1..MaxConcurrency : jobs[j].st = "rejected")
                => pc \in {"closing", "done"} /\ exitCode = 1 /\ error.kind = "capture"

\* C9 witness: a run has ended after a capture of a later chunk failed while another capture
\* of that chunk resolved.
C9_Witness ==
    /\ Finished /\ error.kind = "capture" /\ i > 0 /\ Len(stdin.written) = i
    /\ \E j, h \in 1..MaxConcurrency : jobs[j].st = "rejected" /\ jobs[h].st = "resolved"

\* C10: a successful run captures and writes exactly ceil(duration * fps) frames, the
\* ceiling of the exact product.
C10_FrameCountIsCeiling ==
    Succeeded =>
       LET d     == Pow10(opts.video.scale)
           exact == (opts.video.num * opts.video.fps + d - 1) \div d
       IN nShots = exact /\ Len(stdin.written) = exact /\ nPages = exact

\* C11: totalFrames is at least 1 for every accepted --duration and --fps, duration 0
\* included: a run that spawned the encoder has a frame to capture, and the input is ended
\* only after at least one frame was captured and written.
C11_AtLeastOneFrame ==
    /\ spawns > 0 => totalFrames >= 1
    /\ stdin.ended => nShots >= 1 /\ Len(stdin.written) >= 1

\* C12: frame 0 never receives a time-offset injection; a frame with index >= 1 gets its
\* animation-frame wait only after its injection and its screenshot only after that wait,
\* while frame 0 gets its screenshot straight after loading and the initialization wait.
C12_InjectionPerFrame ==
    [][\A j \in 1..MaxConcurrency :
          LET from == jobs[j].st
              to   == jobs'[j].st
          IN /\ (to = "inject" /\ from # "inject")
                   => (jobs'[j].idx >= 1 /\ jobs[j].idx = jobs'[j].idx /\ from \in {"load", "wait"})
             /\ (to = "raf" /\ from # "raf")
                   => (jobs'[j].idx >= 1 /\ jobs[j].idx = jobs'[j].idx /\ from = "inject")
             /\ (to = "shot" /\ from # "shot")
                   => (/\ jobs[j].idx = jobs'[j].idx
                       /\ from = (IF jobs'[j].idx >= 1 THEN "raf"
                                  ELSE IF opts.wait > 0 THEN "wait" ELSE "load"))]_vars

\* C12 witness: the captures of frame 0 and of frame 1 have both taken their screenshot.
C12_Witness ==
    /\ opts.concurrency = 2 /\ jobs[1].idx = 0 /\ jobs[2].idx = 1
    /\ jobs[1].buf = 0 /\ jobs[2].buf = 1 /\ nShots = 2

\* C13: the operations on a frame's page occur in the order load, initialization delay,
\* (injection, animation-frame wait), screenshot, close: each is issued only when the one
\* before it has completed, and a failed operation is followed by the close alone.
C13_PageOperationOrder ==
    [][\A j \in 1..MaxConcurrency :
          LET from == jobs[j].st
              to   == jobs'[j].st
              init == IF opts.wait > 0 THEN "wait" ELSE "load"
          IN (to # from /\ to \in {"load", "wait", "inject", "raf", "shot", "close", "closeErr"})
                => (/\ jobs'[j].idx = jobs[j].idx
                    /\ CASE to = "load"     -> from = "viewport"
                         [] to = "wait"     -> from = "load" /\ opts.wait > 0
                         [] to = "inject"   -> from = init
                         [] to = "raf"      -> from = "inject"
                         [] to = "shot"     -> from \in {init, "raf"}
                         [] to = "close"    -> from = "shot" /\ jobs'[j].buf = jobs[j].idx
                         [] to = "closeErr" -> from \in {"load", "inject", "raf", "shot"})]_vars

\* C13 witness: with an initialization delay, a frame of a later chunk that needed the
\* injection has gone through all its operations and its capture has resolved.
C13_Witness ==
    /\ opts.wait > 0 /\ i > 0
    /\ \E j \in 1..MaxConcurrency : jobs[j].st = "resolved" /\ jobs[j].idx >= 1 /\ ~jobs[j].page

\* C14: while a chunk is captured or written, it starts at a multiple of C, holds the
\* min(C, totalFrames - i) consecutive indices from i, between 1 and C of them, and the
\* captures started so far are exactly 0 .. i + size - 1, each once; a successful run has
\* started every index; and at no time are more than C pages open.
C14_ChunkPartition ==
    LET C    == opts.concurrency
        cur  == {j \in 1..MaxConcurrency : jobs[j].st # "idle"}
        n    == Cardinality(cur)
    IN /\ pc \in {"capture", "drain"}
            => (/\ i % C = 0 /\ i < totalFrames
                /\ cur = 1..n /\ n >= 1 /\ n <= C
                /\ n = (IF totalFrames - i < C THEN totalFrames - i ELSE C)
                /\ \A j \in cur : jobs[j].idx = i + j - 1
                /\ started = [k \in 1..(i + n) |-> k - 1])
       /\ (Succeeded => started = [k \in 1..totalFrames |-> k - 1])
       /\ Cardinality({j \in 1..MaxConcurrency : jobs[j].page}) <= C

\* C14 witness: the last chunk of a run is a partial one and its page is open.
C14_Witness ==
    /\ pc = "capture" /\ opts.concurrency = 2 /\ totalFrames = 1
    /\ jobs[1].page /\ jobs[2].st = "idle"

\* C15: framesRendered starts at 0, never decreases, never exceeds totalFrames, grows by
\* the chunk's size when all frames of the chunk have been written, equals totalFrames once
\* the encoder's input is ended; totalFrames does not change once the run has computed it.
C15_Progress ==
    /\ [](/\ (pc = "start" => framesRendered = 0)
          /\ framesRendered <= totalFrames
          /\ framesRendered <= Len(stdin.written)
          /\ (stdin.ended => framesRendered = totalFrames))
    /\ [][/\ framesRendered' >= framesRendered
           /\ (framesRendered' # framesRendered
                 => (/\ framesRendered = i
                     /\ framesRendered' - framesRendered =
                           (IF totalFrames - i < opts.concurrency THEN totalFrames - i
                            ELSE opts.concurrency)
                     /\ Len(stdin'.written) = framesRendered'))
           /\ (pc # "start" => totalFrames' = totalFrames)]_vars

\* C15 witness: the input is ended after a run whose last chunk was a partial one.
C15_Witness ==
    /\ stdin.ended /\ framesRendered = totalFrames
    /\ totalFrames > 0 /\ totalFrames % opts.concurrency # 0

\* C16: the encoder's input is ended at most once, once in a successful run, and only after
\* all totalFrames frames were written; nothing is written after it was ended; and the
\* pipeline waits for the encoder's exit only after ending it.
C16_InputEndedOnce ==
    /\ [](/\ stdin.ends <= 1
          /\ (Succeeded => stdin.ends = 1)
          /\ (stdin.ends >= 1 => stdin.written = [k \in 1..totalFrames |-> k - 1])
          /\ ((pc = "awaitExit" \/ listening) => stdin.ends = 1))
    /\ [][stdin.ends >= 1 => stdin'.written = stdin.written]_vars

\* C16 witness: a successful ten-frame run has ended the input once.
C16_Witness ==
    Succeeded /\ stdin.ends = 1 /\ totalFrames = 10 /\ Len(stdin.written) = 10

\* C17: the arguments of buildFfmpegArgs always contain -y and end with the output path;
\* for gif they contain -vf fps=<fps> and -loop <loop> and none of -c:v, -crf, -pix_fmt,
\* -movflags; otherwise they contain -c:v and -crf, -pix_fmt yuv420p exactly for the h264
\* and h265 codecs, and -movflags +faststart exactly for h264.
C17_FfmpegArgs ==
    (call.fn = "buildFfmpegArgs" /\ call.out # <<>>) =>
       LET o == call.arg
           a == call.out[1]
           has(x) == \E k \in 1..Len(a) : a[k] = x
           pair(x, y) == \E k \in 1..(Len(a) - 1) : a[k] = x /\ a[k + 1] = y
           isH264 == o.codec \in {H264, LibX264}
           isH265 == o.codec \in {H265, LibX265}
       IN /\ has(<<"-", "y">>)
          /\ Len(a) > 0 /\ a[Len(a)] = o.output
          /\ IF o.format = "gif"
                THEN /\ pair(<<"-", "v", "f">>, <<"f", "p", "s", "=">> \o String(o.fps))
                     /\ pair(<<"-", "l", "o", "o", "p">>, String(o.loop))
                     /\ ~has(<<"-", "c", ":", "v">>) /\ ~has(<<"-", "c", "r", "f">>)
                     /\ ~has(<<"-", "p", "i", "x", "_", "f", "m", "t">>) /\ ~has(<<"-", "m", "o", "v", "f", "l", "a", "g", "s">>)
                ELSE /\ has(<<"-", "c", ":", "v">>) /\ has(<<"-", "c", "r", "f">>)
                     /\ pair(<<"-", "p", "i", "x", "_", "f", "m", "t">>, <<"y", "u", "v", "4", "2", "0", "p">>) <=> (isH264 \/ isH265)
                     /\ has(<<"-", "p", "i", "x", "_", "f", "m", "t">>) <=> (isH264 \/ isH265)
                     /\ pair(<<"-", "m", "o", "v", "f", "l", "a", "g", "s">>, <<"+", "f", "a", "s", "t", "s", "t", "a", "r", "t">>) <=> isH264
                     /\ has(<<"-", "m", "o", "v", "f", "l", "a", "g", "s">>) <=> isH264

\* C17 witness: the arguments for an mp4 with the h265 codec have been built.
C17_Witness ==
    /\ call.fn = "buildFfmpegArgs" /\ call.out # <<>>
    /\ call.arg.format = "mp4" /\ call.arg.codec = H265

\* C18: qualityToCrf(q, codec) is (100 - q) * maxCrf / 100 rounded to the nearest integer,
\* halves up, with maxCrf 63 for libvpx-vp9 and 51 otherwise; it lies in 0..maxCrf for
\* q in 0..100; 100 -> 0, 0 -> 51, 75 -> 13, 50 -> 26 on the 51 tier, 0 -> 63 and
\* 50 -> 32 on the 63 tier.
C18_QualityToCrf ==
    (call.fn = "qualityToCrf" /\ call.out # <<>>) =>
       LET q      == call.arg.quality
           maxCrf == IF call.arg.codec = LibVpxVp9 THEN 63 ELSE 51
           crf    == call.out[1]
       IN /\ crf = ((100 - q) * maxCrf + 50) \div 100
          /\ crf \in 0..maxCrf
          /\ (maxCrf = 51 /\ q = 100) => crf = 0
          /\ (maxCrf = 51 /\ q = 0) => crf = 51
          /\ (maxCrf = 51 /\ q = 75) => crf = 13
          /\ (maxCrf = 51 /\ q = 50) => crf = 26
          /\ (maxCrf = 63 /\ q = 0) => crf = 63
          /\ (maxCrf = 63 /\ q = 50) => crf = 32

\* C18 witness: quality 50, where the quotient is the half 25.5, has been mapped to 26.
C18_Witness ==
    /\ call.fn = "qualityToCrf" /\ call.out = <<26>>
    /\ call.arg.quality = 50 /\ call.arg.codec = LibX264

\* C19: interpolateParams clamps t into [0,1] and returns start + (end - start) *
\* easing(clamped t) for each key: for every registered easing the result at every
\* t <= 0 equals the start values and at every t >= 1 equals the end values.
C19_InterpolateEndpoints ==
    (call.fn = "interpolateParams" /\ call.out # <<>>) =>
        LET specs   == call.arg.specs
            t       == NumberOf(call.arg.t)
            result  == call.out[1]
            Last(n) == \A h \in DOMAIN specs : specs[h].key = specs[n].key => h <= n
        IN /\ DOMAIN result = {specs[n].key : n \in DOMAIN specs}
           /\ \A n \in DOMAIN specs :
                 Last(n) =>
                    /\ (~LessThan(Zero, t))
                          => SameNumber(result[specs[n].key], NumberOf(specs[n].start))
                    /\ (~LessThan(t, One))
                          => SameNumber(result[specs[n].key], NumberOf(specs[n].end))

\* C20: each of the four registered easings gives 0 at 0 and 1 at 1 and is monotonic
\* non-decreasing on [0,1], the ease-in-out midpoint included, where both pieces of the
\* function give 0.5.
C20_EasingsMonotonic ==
    (call.fn = "easing" /\ call.out # <<>>) =>
        LET f == call.out[1]
        IN /\ (call.arg.t = Grid(0)) => SameNumber(f.at, Zero)
           /\ (call.arg.next = Grid(100)) => SameNumber(f.next, One)
           /\ ~LessThan(f.next, f.at)
           /\ (call.arg.easing = "ease-in-out" /\ call.arg.t = Grid(50))
                 => (SameNumber(EaseInOutFirst(Half), Half) /\ SameNumber(EaseInOutSecond(Half), Half))

\* a numeral: an optional sign, then digits with at most one point and at least one digit
Numeral(s) ==
    /\ Len(s) > 0
    /\ LET body == IF s[1] \in {"-", "+"} THEN SubSeq(s, 2, Len(s)) ELSE s
       IN /\ \A p \in 1..Len(body) : body[p] \in Digits \cup {"."}
          /\ Cardinality({p \in 1..Len(body) : body[p] = "."}) <= 1
          /\ \E p \in 1..Len(body) : body[p] \in Digits

\* C21: parseAnimate throws, and returns no spec, whenever the value has no '=', has an
\* empty key, has a range with a number of ':'-separated parts other than two, or has a
\* start or end part that is not a number (an empty one included); it returns a spec for
\* every other value.
C21_ParseAnimateRejects ==
    (call.fn = "parseAnimate" /\ call.out # <<>>) =>
        LET value  == call.arg.value
            eqIdx  == IndexOf(value, "=")
            range  == StrSlice(value, eqIdx + 1, Len(value))
            colon  == IndexOf(range, ":")
            thrown == "error" \in DOMAIN call.out[1]
        IN thrown <=> \/ eqIdx = -1
                      \/ eqIdx = 0
                      \/ SplitCount(range, ":") # 2
                      \/ ~Numeral(StrSlice(range, 0, colon))
                      \/ ~Numeral(StrSlice(range, colon + 1, Len(range)))

\* C22: for every non-empty key without '=' and all numbers start and end, negative and
\* fractional ones included, parseAnimate(key + "=" + start + ":" + end) returns exactly
\* {key, start, end}.
C22_ParseAnimateRoundTrip ==
    (call.fn = "parseAnimate" /\ call.out # <<>> /\ call.arg.from # <<>>) =>
        LET s == call.arg.from[1]
            r == call.out[1]
        IN /\ DOMAIN r = {"key", "start", "end"}
           /\ r.key = s.key
           /\ r.start = NumberOf(s.start)
           /\ r.end = NumberOf(s.end)

C22_Witness ==
    /\ call.fn = "parseAnimate" /\ call.out # <<>> /\ call.arg.from # <<>>
    /\ call.arg.from[1].key = <<"a", ":", "b">>
    /\ call.arg.from[1].start = Decimal(TRUE, 25, 2)
    /\ call.arg.from[1].end = Decimal(FALSE, 125, 3)
    /\ "key" \in DOMAIN call.out[1]

\* the capture at position j of the chunk is under way
InFlight(j) == jobs[j].st \notin {"idle", "resolved", "rejected"}

\* C23: at every moment at most C captured frames have not yet been handed to the
\* encoder's input, and no capture is in flight while frames are being written: captures
\* are under way only while every frame of the chunks before has been written, a write
\* that waits for 'drain' is the last one made, and frames are written only once every
\* capture of their chunk has taken its screenshot.
C23_CapturesAndWritesSerialized ==
    /\ [](/\ nShots - Len(stdin.written) <= opts.concurrency
          /\ ((\E j \in 1..MaxConcurrency : InFlight(j)) => Len(stdin.written) = i)
          /\ (pc = "drain"
                => (/\ \A j \in 1..MaxConcurrency : ~InFlight(j)
                    /\ widx >= 1 /\ Len(stdin.written) = i + widx)))
    /\ [][(Len(stdin'.written) > Len(stdin.written))
             => (/\ \A j \in 1..MaxConcurrency : jobs[j].st \in {"idle", "resolved", "close"}
                 /\ Cardinality({j \in 1..MaxConcurrency : jobs[j].st = "close"}) <= 1
                 /\ SubSeq(stdin'.written, 1, Len(stdin.written)) = stdin.written
                 /\ Len(stdin'.written) <= nShots')]_vars

\* C23 witness: in a later chunk of two captured frames the first is written and waits
\* for 'drain' while the second is still to be written.
C23_Witness ==
    /\ pc = "drain" /\ i > 0 /\ widx = 1 /\ Len(frames) = 2
    /\ nShots - Len(stdin.written) = 1

\* the states of a capture between getPage's return and the call of page.close
HoldsPage == {"load", "wait", "inject", "raf", "shot"}

\* C24: every frame capture acquires its own page, no page serves two frames, and every
\* acquired page is closed exactly once: page.close is called once the screenshot is
\* taken and also when the load, the injection, the animation-frame wait or the
\* screenshot fails, it is called for no capture twice, and no capture settles or is
\* replaced while it holds a page (the capture that resolves last in its chunk gives way
\* to the next chunk's capture in the same step).
C24_OnePagePerFrame ==
    /\ [](/\ nPages <= Len(started) /\ nShots <= nPages
          /\ \A j \in 1..MaxConcurrency :
                /\ (jobs[j].st \in HoldsPage \cup {"close", "closeErr"}) => jobs[j].page
                /\ (jobs[j].st = "resolved") => ~jobs[j].page
          /\ (pc \in {"drain", "awaitExit"} \/ Succeeded) => nPages = Len(started))
    /\ [][\A j \in 1..MaxConcurrency :
            LET from == jobs[j].st
                to   == jobs'[j].st
            IN /\ (to = "load" /\ from # "load")
                     => (from = "viewport" /\ nPages' = nPages + 1 /\ jobs'[j].idx = jobs[j].idx)
               /\ (from \in HoldsPage /\ to # from)
                     => (to \in HoldsPage \cup {"close", "closeErr"} /\ jobs'[j].idx = jobs[j].idx)
               /\ (to \in {"close", "closeErr"} /\ to # from) => from \in HoldsPage
               /\ (from \in {"close", "closeErr"} /\ to # from)
                     => \/ /\ to = (IF from = "close" /\ ~jobs'[j].page THEN "resolved" ELSE "rejected")
                           /\ jobs'[j].idx = jobs[j].idx
                        \/ /\ from = "close" /\ i' = i + opts.concurrency /\ ~jobs'[j].page
                           /\ to \in {"idle", "launch", "newPage"}
               /\ (nPages' # nPages) => nPages' = nPages + 1]_vars

\* C24 witness: every capture started so far acquired a page, one of a later chunk failed
\* while it held its page, and that page has been closed.
C24_Witness ==
    /\ i > 0 /\ nPages = Len(started) /\ nShots < nPages
    /\ \E j \in 1..MaxConcurrency : jobs[j].st = "rejected" /\ ~jobs[j].page

\* the double x, 0 < x, is a nearest one to num / d: |x * d - num| is at most half a unit
\* in the last place of x, times d
NearestTo(x, num, d) ==
    LET p    == MulBits(x.m, d)
        q    == IntBits(num) \o Zeros(MantissaBits - 1 - x.e)
        diff == IF LessBits(p, q) THEN SubBits(q, p) ELSE SubBits(p, q)
    IN diff = <<>> \/ ~LessBits(IntBits(d), diff \o <<0>>)

\* C25: for every totalFrames >= 1 and frame index i below it, the normalized time is 0
\* when totalFrames <= 1 and i / (totalFrames - 1) otherwise: it lies in [0,1], is 0 for
\* the first frame and 1 for the last frame when totalFrames > 1, and strictly increases
\* with i.
C25_NormalizedTime ==
    (call.fn = "normalizedTime" /\ call.out # <<>>) =>
        LET n == call.arg.totalFrames
            t == call.out[1]
        IN /\ DOMAIN t = 0..(n - 1)
           /\ SameNumber(t[0], Zero)
           /\ (n > 1) => SameNumber(t[n - 1], One)
           /\ \A frameIdx \in 0..(n - 1) :
                 /\ ~LessThan(t[frameIdx], Zero) /\ ~LessThan(One, t[frameIdx])
                 /\ (frameIdx >= 1) => (/\ LessThan(t[frameIdx - 1], t[frameIdx])
                                        /\ NearestTo(t[frameIdx].abs, frameIdx, n - 1))

\* C25 witness: the times of a run of MaxFrames frames.
C25_Witness ==
    /\ call.fn = "normalizedTime" /\ call.out # <<>> /\ call.arg.totalFrames = MaxFrames
    /\ LessThan(call.out[1][1], call.out[1][2])

\* the double x is an integer
IsInteger(x) == x.m = <<>> \/ (x.e >= 0 /\ \A k \in (x.e + 2)..MantissaBits : x.m[k] = 0)

\* C26: the offset handed to the Time Offset Injector for frame i is (i / fps) * 1000 and
\* is an integer number of milliseconds for every frame index i >= 1 and every fps.
C26_OffsetIsInteger ==
    (call.fn = "timeOffsetMs" /\ call.out # <<>>) =>
        \A frameIdx \in 1..(call.arg.totalFrames - 1) : IsInteger(call.out[1][frameIdx].abs)

\* C28: the frame-capture loop terminates for every totalFrames and every --concurrency
\* the command accepts, 0 and negative values included: it begins at most totalFrames
\* iterations before the encoder's input is ended.
C28_LoopTerminates == iterations <= totalFrames

\* C27: every run eventually finishes, reporting success or failure and releasing the
\* browser, once the encoder process has terminated, whatever the moment of that
\* termination: also before the 'close' listener is registered and while the pipeline
\* waits for 'drain'.
C27_RunFinishes == (proc = "closed") ~> (pc = "done")

\* C29: when the command releases the browser no capture is still in flight and no
\* capture page is still open, also when one capture of a chunk failed while others were
\* under way; and once the run has ended no browser is left open.
C29_ReleaseAfterCaptures ==
    /\ (pc \in {"closing", "done"})
          => \A j \in 1..MaxConcurrency : ~InFlight(j) /\ ~jobs[j].page
    /\ (pc = "done") => browserInstance = NoBrowser

\* the manifest in job-index order: for every file in turn, one entry per job, entry n of
\* the file describing job n
JobOrderManifest ==
    [q \in 1..(opts.files * JobsLength) |->
        [file |-> ((q - 1) \div JobsLength) + 1, index |-> (q - 1) % JobsLength]]

\* C30: the manifest the batch command writes has its entries in job-index order, for
\* every order in which the captures of a chunk complete, and exactly one entry per
\* rendered job.
C30_ManifestInJobOrder ==
    batch.written # <<>>
       => /\ Len(batch.written[1]) = batch.totalRendered
          /\ batch.written[1] = JobOrderManifest

====
